---------------------------- MODULE Spec2Model ----------------------------
(***************************************************************************)
(* Unified AI Router: the provider registry, the four backend clients and  *)
(* the /ai/chat route, as a state machine over requests in flight.         *)
(*                                                                         *)
(* Text that the code inspects character by character (provider names,     *)
(* the configured endpoint, exception text, model names, completions) is a *)
(* sequence of one-character strings.  Message templates the code only     *)
(* formats are TLA+ strings; the formatted arguments are kept beside them. *)
(*                                                                         *)
(* Not modelled: the temperature field (validated and passed on like       *)
(* max_tokens), the request URL and headers of the cloud calls, GET        *)
(* /health, CORS and logging.                                              *)
(***************************************************************************)
EXTENDS Integers, Sequences, FiniteSets, TLC

VARIABLES environ, settings, task, loop

vars == <<environ, settings, task, loop>>

(***************************** bounds **************************************)
NumTasks == 2

MaxClock == 40

ClockStep == 10

FullCaseLen == 6

Tasks == 1..NumTasks

(************************* str primitives **********************************)
Upper == <<"A","B","C","D","E","F","G","H","I","J","K","L","M",
           "N","O","P","Q","R","S","T","U","V","W","X","Y","Z">>

Lower == <<"a","b","c","d","e","f","g","h","i","j","k","l","m",
           "n","o","p","q","r","s","t","u","v","w","x","y","z">>

\* U+0130 (capital I with dot above) is the one character whose lower-case
\* form is two code points: "i" followed by U+0307.
CapitalIDot == "U+0130"

CombiningDot == "U+0307"

WhiteSpace == {" ", "\t", "\n"}

lower_char(c) ==
    IF \E i \in 1..Len(Upper) : Upper[i] = c
    THEN <<Lower[CHOOSE i \in 1..Len(Upper) : Upper[i] = c]>>
    ELSE IF c = CapitalIDot THEN <<"i", CombiningDot>> ELSE <<c>>

RECURSIVE lower(_)
lower(s) == IF s = <<>> THEN <<>> ELSE lower_char(Head(s)) \o lower(Tail(s))

RECURSIVE lstrip(_)
lstrip(s) == IF s # <<>> /\ Head(s) \in WhiteSpace THEN lstrip(Tail(s)) ELSE s

RECURSIVE rstrip(_)
rstrip(s) ==
    IF s # <<>> /\ s[Len(s)] \in WhiteSpace
    THEN rstrip(SubSeq(s, 1, Len(s) - 1)) ELSE s

strip(s) == rstrip(lstrip(s))

\* Python's  needle in hay  on str
contains(hay, needle) ==
    \E i \in 0..(Len(hay) - Len(needle)) :
        SubSeq(hay, i + 1, i + Len(needle)) = needle

\* Optional[...] values: None, or a value
None == [some |-> FALSE, val |-> <<>>, num |-> 0]

SomeStr(s) == [some |-> TRUE, val |-> s, num |-> 0]

SomeInt(n) == [some |-> TRUE, val |-> <<>>, num |-> n]

\* truth value of an Optional[str]: None and "" are both falsy
truthy(x) == x.some /\ x.val # <<>>

\* Python's  x or y  on an Optional[str] and a str
str_or(x, y) == IF truthy(x) THEN x.val ELSE y

(***************************** config.py ***********************************)
ollama_host_default ==
    <<"h","t","t","p",":","/","/","l","o","c","a","l","h","o","s","t",
      ":","1","1","4","3","4">>

default_ollama_model == <<"l","l","a","m","a","3",".","2",":","3","b">>

default_openai_model == <<"g","p","t","-","4","o","-","m","i","n","i">>

default_anthropic_model ==
    <<"c","l","a","u","d","e","-","3","-","5","-","s","o","n","n","e","t",
      "-","2","0","2","4","1","0","2","2">>

default_gemini_model ==
    <<"g","e","m","i","n","i","-","1",".","5","-","f","l","a","s","h">>

\* Settings(): a field the environment does not supply takes its default
Settings(env) ==
    [ollama_host |-> IF env.some THEN env.val ELSE ollama_host_default]

\* mutant: the host is tested without strip()
is_ollama_available_unstripped(s) == s.ollama_host # <<>>

is_ollama_available(s) == strip(s.ollama_host) # <<>>

\* what OLLAMA_HOST can be in the environment / .env file
EnvOllamaHost ==
    { None,
      SomeStr(<<>>),
      SomeStr(<<" ", " ">>),
      SomeStr(ollama_host_default),
      SomeStr(<<"h","t","t","p",":","/","/","g","p","u",":","1","1","4","3","4">>) }

(************************ outcomes of a call *******************************)
\* One record shape for everything a function can end with: a returned
\* value, a raised HTTPException (status_code, detail), any other raised
\* exception, or the AIResponse sent with status 200.
NoOutcome ==
    [kind |-> "none", status |-> 0, text |-> "", arg |-> <<>>,
     names |-> <<>>, provider |-> <<>>, model |-> <<>>]

HTTPException(status_code, template, argument, listed) ==
    [NoOutcome EXCEPT !.kind = "HTTPException", !.status = status_code,
                      !.text = template, !.arg = argument, !.names = listed]

\* an exception that is not an HTTPException: its class and str(e)
Raised(class, message) ==
    [NoOutcome EXCEPT !.kind = "exception", !.text = class, !.arg = message]

Returned(value) == [NoOutcome EXCEPT !.kind = "return", !.arg = value]

(************************ what a backend does ******************************)
\* What comes back from the network call of a client.
\*   ev = "response":  status, the shape of the body, and the text in it
\*                     (the completion, or error.message)
\*   ev = "exception": the call raised exc with str(e) = text
Response(status, shape, text) ==
    [ev |-> "response", status |-> status, shape |-> shape, text |-> text,
     exc |-> ""]

Exception(exc, text) ==
    [ev |-> "exception", status |-> 0, shape |-> "", text |-> text, exc |-> exc]

\* httpx Response.is_success
is_success(status) == 200 <= status /\ status <= 299

RECURSIVE digits(_)
digits(n) ==
    IF n < 10 THEN <<SubSeq(<<"0","1","2","3","4","5","6","7","8","9">>, n + 1, n + 1)[1]>>
    ELSE digits(n \div 10) \o digits(n % 10)

\* str(e) of the HTTPStatusError raise_for_status makes: names the status
status_error_text(status) == <<"s","t","a","t","u","s"," ">> \o digits(status)

KeyErrorText == <<"K","e","y","E","r","r","o","r">>

JSONDecodeErrorText == <<"E","x","p","e","c","t","i","n","g">>

AttributeErrorText == <<"n","o"," ","'","g","e","t","'">>

TypeErrorText == <<"N","o","n","e","T","y","p","e">>

(***************************** clients *************************************)
\* Each client runs in two halves: up to its network call (begin), and from
\* the backend's answer to its return or raise (end).

\* the start of a client: either it ends at once with result, or it issues
\* the network call with the model and max_tokens of the payload
Ends(result) ==
    [issue |-> FALSE, model |-> <<>>, api_model |-> <<>>, max_tokens |-> None,
     result |-> result]

Issues(model, api_model, max_tokens) ==
    [issue |-> TRUE, model |-> model, api_model |-> api_model,
     max_tokens |-> max_tokens, result |-> NoOutcome]

\* the except clauses shared, line for line, by the three cloud clients
cloud_end(api_error, request_failed, ev) ==
    IF ev.ev = "response"
    THEN IF is_success(ev.status)
         THEN IF ev.shape = "completion"
              THEN Returned(strip(ev.text))
              ELSE IF ev.shape = "not_json"
                   THEN HTTPException(502, request_failed, JSONDecodeErrorText, <<>>)
                   ELSE HTTPException(502, request_failed, KeyErrorText, <<>>)
         \* except httpx.HTTPStatusError: evaluated inside the handler, so
         \* what it raises is caught by no sibling except clause
         ELSE CASE ev.shape = "not_json" ->
                     Raised("JSONDecodeError", JSONDecodeErrorText)
                [] ev.shape \in {"json_array", "error_string", "error_null"} ->
                     Raised("AttributeError", AttributeErrorText)
                [] ev.shape = "error_message" ->
                     HTTPException(ev.status, api_error, ev.text, <<>>)
                [] OTHER ->
                     HTTPException(ev.status, api_error,
                                   status_error_text(ev.status), <<>>)
    ELSE HTTPException(502, request_failed, ev.text, <<>>)

call_openai_begin(a) ==
    Issues(str_or(a.model, default_openai_model), <<>>, a.max_tokens)

call_openai_end(ev) ==
    cloud_end("OpenAI API Error: {error_detail}", "OpenAI request failed: {e}", ev)

Min(a, b) == IF a < b THEN a ELSE b

Max(a, b) == IF a > b THEN a ELSE b

call_anthropic_begin(a) ==
    IF ~a.max_tokens.some
    THEN Ends(Raised("TypeError", TypeErrorText))
    ELSE Issues(str_or(a.model, default_anthropic_model), <<>>,
                SomeInt(Max(1, Min(a.max_tokens.num, 4096))))

call_anthropic_end(ev) ==
    cloud_end("Anthropic API Error: {error_detail}",
              "Anthropic request failed: {e}", ev)

GeminiPrefix == <<"g","e","m","i","n","i","-">>

startswith(s, p) == Len(s) >= Len(p) /\ SubSeq(s, 1, Len(p)) = p

\* str.replace(old, ""): every occurrence, left to right
RECURSIVE remove_all(_, _)
remove_all(s, old) ==
    IF s = <<>> THEN <<>>
    ELSE IF startswith(s, old)
         THEN remove_all(SubSeq(s, Len(old) + 1, Len(s)), old)
         ELSE <<Head(s)>> \o remove_all(Tail(s), old)

call_gemini_begin(a) ==
    LET model_name == str_or(a.model, default_gemini_model)
    IN  Issues(model_name,
               IF startswith(model_name, GeminiPrefix)
               THEN remove_all(model_name, GeminiPrefix) ELSE model_name,
               a.max_tokens)

call_gemini_end(ev) ==
    cloud_end("Gemini API Error: {error_detail}", "Gemini request failed: {e}", ev)

\* mutant: the availability guard of call_ollama is left out
call_ollama_begin_unguarded(a, s) ==
    Issues(str_or(a.model, default_ollama_model), <<>>, a.max_tokens)

call_ollama_begin(a, s) ==
    IF ~is_ollama_available(s)
    THEN Ends(HTTPException(503,
                 "Ollama is not configured. Set OLLAMA_HOST in .env", <<>>, <<>>))
    ELSE Issues(str_or(a.model, default_ollama_model), <<>>, a.max_tokens)

ModelNotFound == <<"m","o","d","e","l"," ","n","o","t"," ","f","o","u","n","d">>

Connection == <<"c","o","n","n","e","c","t","i","o","n">>

Refused == <<"r","e","f","u","s","e","d">>

call_ollama_end(model, ev, s) ==
    IF ev.ev = "response"
    THEN IF ev.shape = "completion"
         THEN Returned(strip(ev.text))
         ELSE HTTPException(502, "Ollama request failed: {e}", KeyErrorText, <<>>)
    ELSE IF ev.exc = "ResponseError"
         THEN IF contains(lower(ev.text), ModelNotFound)
              THEN HTTPException(400,
                      "Ollama model '{model}' not found. Run: ollama pull {model}",
                      model, <<>>)
              ELSE IF contains(lower(ev.text), Connection)
                      \/ contains(lower(ev.text), Refused)
                   THEN HTTPException(503,
                           "Ollama server not running at {ollama_host}. Start with: ollama serve",
                           s.ollama_host, <<>>)
                   ELSE HTTPException(502, "Ollama error: {e}", ev.text, <<>>)
         ELSE HTTPException(502, "Ollama request failed: {e}", ev.text, <<>>)

(***************************** registry ************************************)
openai == <<"o","p","e","n","a","i">>

anthropic == <<"a","n","t","h","r","o","p","i","c">>

gemini == <<"g","e","m","i","n","i">>

ollama == <<"o","l","l","a","m","a">>

\* the keys of PROVIDER_MAP, in insertion order; each maps to its call_<key>
PROVIDER_MAP == <<openai, anthropic, gemini, ollama>>

InMap(p) == \E i \in 1..Len(PROVIDER_MAP) : PROVIDER_MAP[i] = p

Found(client) == [ok |-> TRUE, client |-> client, err |-> NoOutcome]

Fails(err) == [ok |-> FALSE, client |-> <<>>, err |-> err]

\* mutant: the message lists only the providers available right now
get_provider_function_filtered(provider, s) ==
    LET p == lower(provider)
        usable(k) == k # ollama \/ is_ollama_available(s)
    IN  IF ~InMap(p)
        THEN Fails(HTTPException(400,
                     "Unsupported provider: '{provider}'. Available: {available}",
                     p, SelectSeq(PROVIDER_MAP, usable)))
        ELSE IF p = ollama /\ ~is_ollama_available(s)
             THEN Fails(HTTPException(400,
                     "Ollama provider requested but not configured. Set OLLAMA_HOST in .env",
                     <<>>, <<>>))
             ELSE Found(p)

get_provider_function(provider, s) ==
    LET p == lower(provider)
    IN  IF ~InMap(p)
        THEN Fails(HTTPException(400,
                     "Unsupported provider: '{provider}'. Available: {available}",
                     p, PROVIDER_MAP))
        ELSE IF p = ollama /\ ~is_ollama_available(s)
             THEN Fails(HTTPException(400,
                     "Ollama provider requested but not configured. Set OLLAMA_HOST in .env",
                     <<>>, <<>>))
             ELSE Found(p)

\* the two halves of PROVIDER_MAP[client]
client_begin(client, a, s) ==
    CASE client = openai    -> call_openai_begin(a)
      [] client = anthropic -> call_anthropic_begin(a)
      [] client = gemini    -> call_gemini_begin(a)
      [] client = ollama    -> call_ollama_begin(a, s)

client_end(client, model, ev, s) ==
    CASE client = openai    -> call_openai_end(ev)
      [] client = anthropic -> call_anthropic_end(ev)
      [] client = gemini    -> call_gemini_end(ev)
      [] client = ollama    -> call_ollama_end(model, ev, s)

(************************ request validation *******************************)
\* A field of the JSON body: absent, null, a string s or an integer n.
\* For the prompt only its length is kept, in n.
Absent == [tag |-> "absent", s |-> <<>>, n |-> 0]

Null == [tag |-> "null", s |-> <<>>, n |-> 0]

Str(s) == [tag |-> "str", s |-> s, n |-> 0]

Int_(n) == [tag |-> "int", s |-> <<>>, n |-> n]

Prompt(len) == [tag |-> "str", s |-> <<>>, n |-> len]

NoRaw == [provider |-> Absent, prompt |-> Absent, model |-> Absent,
          max_tokens |-> Absent]

NoReq == [provider |-> <<>>, prompt_len |-> 0, model |-> None, max_tokens |-> None]

\* AIRequest: whether the body validates
AIRequest_valid(raw) ==
    /\ raw.provider.tag = "str"
    /\ raw.prompt.tag = "str" /\ 1 <= raw.prompt.n /\ raw.prompt.n <= 10000
    /\ raw.model.tag \in {"absent", "null", "str"}
    /\ \/ raw.max_tokens.tag \in {"absent", "null"}
       \/ /\ raw.max_tokens.tag = "int"
          /\ 1 <= raw.max_tokens.n /\ raw.max_tokens.n <= 4096

\* AIRequest: the validated request, defaults filled in
AIRequest(raw) ==
    [provider   |-> raw.provider.s,
     prompt_len |-> raw.prompt.n,
     model      |-> IF raw.model.tag = "str" THEN SomeStr(raw.model.s) ELSE None,
     max_tokens |-> CASE raw.max_tokens.tag = "absent" -> SomeInt(500)
                      [] raw.max_tokens.tag = "null"   -> None
                      [] OTHER -> SomeInt(raw.max_tokens.n)]

\* what the framework answers for a body AIRequest rejects
ValidationError == HTTPException(422, "validation error", <<>>, <<>>)

(****************************** router *************************************)
Default == <<"d","e","f","a","u","l","t">>

AIResponse(provider, model, response) ==
    [NoOutcome EXCEPT !.kind = "AIResponse", !.status = 200,
                      !.provider = provider, !.model = model, !.arg = response]

\* mutant: the catch-all puts str(e) into the detail
chat_endpoint_end_leaky(req, cres) ==
    CASE cres.kind = "return" ->
            AIResponse(req.provider, str_or(req.model, Default), cres.arg)
      [] cres.kind = "HTTPException" -> cres
      [] OTHER ->
            HTTPException(500, "Internal server error processing AI request",
                          cres.arg, <<>>)

\* mutant: the model is echoed whenever it is not None
chat_endpoint_end_not_none(req, cres) ==
    CASE cres.kind = "return" ->
            AIResponse(req.provider,
                       IF req.model.some THEN req.model.val ELSE Default, cres.arg)
      [] cres.kind = "HTTPException" -> cres
      [] OTHER ->
            HTTPException(500, "Internal server error processing AI request",
                          <<>>, <<>>)

\* chat_endpoint from the return of provider_func to its own return or raise
chat_endpoint_end(req, cres) ==
    CASE cres.kind = "return" ->
            AIResponse(req.provider, str_or(req.model, Default), cres.arg)
      [] cres.kind = "HTTPException" -> cres
      [] OTHER ->
            HTTPException(500, "Internal server error processing AI request",
                          <<>>, <<>>)

(************************** requests in flight *****************************)
NoCall == Ends(NoOutcome)

Idle ==
    [stage |-> "idle", via |-> "", raw |-> NoRaw, req |-> NoReq,
     client |-> <<>>, called |-> FALSE, call |-> NoCall, net |-> 0,
     phase |-> "", elapsed |-> 0, ev |-> Exception("", <<>>),
     cres |-> NoOutcome, out |-> NoOutcome]

\* TIMEOUT_CONFIG = httpx.Timeout(30.0, connect=10.0), in seconds
TIMEOUT_CONFIG == [connect |-> 10, read |-> 30]

\* The three cloud clients pass TIMEOUT_CONFIG to their transport; call_ollama
\* passes no timeout to ollama.generate, whose client then waits without limit.
has_timeout(client) == client # ollama

limit(phase) ==
    IF phase = "connecting" THEN TIMEOUT_CONFIG.connect ELSE TIMEOUT_CONFIG.read

\* ollama.generate is a synchronous call made inside the coroutine: the
\* event loop's only thread stays in it until it returns.  The cloud clients
\* await their transport, which hands the thread back to the loop.
blocks_loop(client) == client = ollama

Init ==
    /\ environ \in EnvOllamaHost
    /\ settings = Settings(environ)
    /\ task = [t \in Tasks |-> Idle]
    /\ loop = 0

\* a client sends POST /ai/chat with body raw
Submit(t, raw) ==
    /\ task[t].stage = "idle"
    /\ task' = [task EXCEPT ![t] = [@ EXCEPT !.stage = "received",
                                             !.via = "route", !.raw = raw]]
    /\ UNCHANGED <<environ, settings, loop>>

\* the framework builds AIRequest from the body before calling the handler
Validate(t) ==
    /\ task[t].stage = "received"
    /\ loop = 0
    /\ LET rec == task[t]
       IN  task' = [task EXCEPT ![t] =
                      IF AIRequest_valid(rec.raw)
                      THEN [rec EXCEPT !.stage = "accepted",
                                       !.req = AIRequest(rec.raw)]
                      ELSE [rec EXCEPT !.stage = "done", !.out = ValidationError]]
    /\ UNCHANGED <<environ, settings, loop>>

\* who gets a client's outcome: the handler's caller by way of chat_endpoint,
\* or the direct caller as it is
Deliver(rec, cres) ==
    IF rec.via = "route" THEN chat_endpoint_end(rec.req, cres) ELSE cres

\* task record after client is entered with the request's arguments
Entered(rec, client) ==
    LET a == [model |-> rec.req.model, max_tokens |-> rec.req.max_tokens]
        b == client_begin(client, a, settings)
    IN  IF b.issue
        THEN [rec EXCEPT !.client = client, !.called = TRUE, !.call = b,
                         !.net = @ + 1, !.stage = "awaiting",
                         !.phase = "connecting", !.elapsed = 0]
        ELSE [rec EXCEPT !.client = client, !.called = TRUE, !.call = b,
                         !.cres = b.result, !.out = Deliver(rec, b.result),
                         !.stage = "done"]

\* chat_endpoint from entry to the await of provider_func's network call
chat_endpoint_begin(t) ==
    /\ task[t].stage = "accepted"
    /\ loop = 0
    /\ LET req == task[t].req
           r == get_provider_function(lower(req.provider), settings)
           rec == IF r.ok THEN Entered(task[t], r.client)
                  ELSE [task[t] EXCEPT !.stage = "done", !.out = r.err]
       IN  /\ task' = [task EXCEPT ![t] = rec]
           /\ loop' = IF rec.stage = "awaiting" /\ blocks_loop(rec.client)
                      THEN t ELSE loop
    /\ UNCHANGED <<environ, settings>>

\* a caller of the module invokes one client function directly
DirectCall(t, client, model) ==
    /\ task[t].stage = "idle"
    /\ loop = 0
    /\ LET rec0 == [task[t] EXCEPT !.via = "direct",
                       !.req = [NoReq EXCEPT !.model = model,
                                             !.max_tokens = SomeInt(500)]]
           rec == Entered(rec0, client)
       IN  /\ task' = [task EXCEPT ![t] = rec]
           /\ loop' = IF rec.stage = "awaiting" /\ blocks_loop(rec.client)
                      THEN t ELSE loop
    /\ UNCHANGED <<environ, settings>>

\* task record after the network call of its client ended with ev
Finished(rec, ev) ==
    LET cres == client_end(rec.client, rec.call.model, ev, settings)
    IN  [rec EXCEPT !.stage = "done", !.phase = "", !.elapsed = 0,
                    !.ev = ev, !.cres = cres,
                    !.out = Deliver(rec, cres)]

\* the connection to the backend is established
Connect(t) ==
    /\ task[t].stage = "awaiting" /\ task[t].phase = "connecting"
    /\ task' = [task EXCEPT ![t] = [@ EXCEPT !.phase = "reading", !.elapsed = 0]]
    /\ UNCHANGED <<environ, settings, loop>>

\* time passes for a pending network call.  A transport with a timeout lets
\* no time pass beyond its limit while the loop is free to raise the timeout.
Tick(t) ==
    /\ task[t].stage = "awaiting"
    /\ LET bounded == has_timeout(task[t].client) /\ loop = 0
           cap == IF bounded THEN limit(task[t].phase) ELSE MaxClock
       IN  /\ task[t].elapsed < cap
           /\ task' = [task EXCEPT ![t] =
                         [@ EXCEPT !.elapsed = Min(@ + ClockStep, cap)]]
    /\ UNCHANGED <<environ, settings, loop>>

\* the transport's timeout expires: httpx raises inside the client's try
Timeout(t) ==
    /\ task[t].stage = "awaiting"
    /\ has_timeout(task[t].client)
    /\ loop = 0
    /\ task[t].elapsed >= limit(task[t].phase)
    /\ task' = [task EXCEPT ![t] =
                  Finished(@, Exception(IF @.phase = "connecting"
                                        THEN "ConnectTimeout" ELSE "ReadTimeout",
                                        <<>>))]
    /\ UNCHANGED <<environ, settings, loop>>

\* the backend answers, or the call fails: the client and the handler resume
Answer(t, ev) ==
    /\ task[t].stage = "awaiting"
    /\ loop \in {0, t}
    /\ ev.ev = "response" => task[t].phase = "reading"
    /\ task' = [task EXCEPT ![t] = Finished(@, ev)]
    /\ loop' = 0
    /\ UNCHANGED <<environ, settings>>

(******************************* inputs ************************************)
upper_char(c) ==
    IF \E i \in 1..Len(Lower) : Lower[i] = c
    THEN Upper[CHOOSE i \in 1..Len(Lower) : Lower[i] = c] ELSE c

\* which positions of a name of n letters are put in upper case: every
\* choice for a short name; for a longer one, at most one letter differing
\* from all-lower or from all-upper
CaseMasks(n) ==
    IF n <= FullCaseLen THEN SUBSET (1..n)
    ELSE { m \in SUBSET (1..n) : Cardinality(m) <= 1 \/ Cardinality(m) >= n - 1 }

CaseVariants(name) ==
    { [i \in 1..Len(name) |-> IF i \in m THEN upper_char(name[i]) ELSE name[i]] :
        m \in CaseMasks(Len(name)) }

AllCaseVariants ==
    UNION { CaseVariants(PROVIDER_MAP[i]) : i \in 1..Len(PROVIDER_MAP) }

\* strings that are no key of PROVIDER_MAP in any letter case
UnknownNames ==
    { <<>>,
      <<"u","n","k","n","o","w","n">>,
      <<"O","l","a","m","a">>,
      <<"o","l","l","a","m","a"," ">>,
      <<"O","P","E","N","A",CapitalIDot>>,
      <<"G","e","m","i","n","i","2">> }

SomeNames ==
    { openai,
      <<"A","n","t","h","r","o","p","i","c">>,
      <<"G","E","M","I","N","I">>,
      ollama,
      <<"O","l","l","A","m","A">> }

GPT4 == <<"g","p","t","-","4">>

ModelFields == { Absent, Null, Str(<<>>), Str(GPT4), Str(default_openai_model) }

MaxTokensFields ==
    { Absent, Null, Int_(-1), Int_(0), Int_(1), Int_(4096), Int_(4097) }

PromptFields == { Absent, Prompt(0), Prompt(1), Prompt(10000), Prompt(10001) }

\* bodies that vary the provider's letter case, the rest at its defaults
CaseRequests ==
    { [provider |-> Str(p), prompt |-> Prompt(1), model |-> Absent,
       max_tokens |-> Absent] : p \in AllCaseVariants }

\* bodies that vary model and max_tokens
FieldRequests ==
    { [provider |-> Str(p), prompt |-> Prompt(1), model |-> m, max_tokens |-> k] :
        p \in SomeNames \cup UnknownNames, m \in ModelFields, k \in MaxTokensFields }

\* bodies that vary what validation looks at besides max_tokens
ShapeRequests ==
    { [provider |-> p, prompt |-> q, model |-> Absent, max_tokens |-> Absent] :
        p \in {Absent, Null, Str(openai)}, q \in PromptFields }

RawRequests == CaseRequests \cup FieldRequests \cup ShapeRequests

Completion == <<" ","h","i"," ","\n">>

Detail == <<"b","a","d"," ","k","e","y">>

ErrorShapes ==
    { "error_message", "error_no_message", "no_error", "error_string",
      "error_null", "not_json", "json_array" }

BackendStatuses == {301, 404, 500}

CloudEvents ==
    { Response(200, "completion", Completion),
      Response(200, "malformed", <<>>),
      Response(200, "not_json", <<>>),
      Exception("ConnectError", <<"n","o"," ","r","o","u","t","e">>) }
    \cup { Response(st, sh, IF sh = "error_message" THEN Detail ELSE <<>>) :
             st \in BackendStatuses, sh \in ErrorShapes }

OllamaErrorTexts ==
    { ModelNotFound,
      <<"M","o","d","e","l"," ","N","o","t"," ","F","o","u","n","d">>,
      <<"m","o","d","e","l"," ","'","m","'"," ","n","o","t"," ","f","o","u","n","d">>,
      <<"C","o","n","n","e","c","t","i","o","n"," ","r","e","f","u","s","e","d">>,
      <<"c","o","n","n","e","c","t","i","o","n"," ","r","e","s","e","t">>,
      <<"u","n","r","e","a","c","h","a","b","l","e">>,
      <<"b","o","o","m">> }

OllamaEvents ==
    { Response(200, "completion", Completion),
      Response(200, "malformed", <<>>) }
    \cup { Exception(k, txt) :
             k \in {"ResponseError", "ConnectionError"}, txt \in OllamaErrorTexts }

EventsOf(client) == IF client = ollama THEN OllamaEvents ELSE CloudEvents

(*************************** specifications ********************************)
\* One request at a time, over the whole input space.
Next ==
    \/ \E raw \in RawRequests : Submit(1, raw)
    \/ Validate(1)
    \/ chat_endpoint_begin(1)
    \/ \E i \in 1..Len(PROVIDER_MAP), m \in {None, SomeStr(GPT4)} :
          DirectCall(1, PROVIDER_MAP[i], m)
    \/ Connect(1)
    \/ Tick(1)
    \/ Timeout(1)
    \/ \E ev \in EventsOf(task[1].client) : Answer(1, ev)

Spec == Init /\ [][Next]_vars

\* NumTasks requests in flight on the one event loop, over a narrow input
\* space: default fields, lower-case provider names, well-formed answers.
ConcRequests ==
    { [provider |-> Str(p), prompt |-> Prompt(1), model |-> Absent,
       max_tokens |-> Absent] : p \in {openai, ollama} }

ConcNext ==
    \E t \in Tasks :
        \/ \E raw \in ConcRequests : Submit(t, raw)
        \/ Validate(t)
        \/ chat_endpoint_begin(t)
        \/ Connect(t)
        \/ Tick(t)
        \/ Timeout(t)
        \/ Answer(t, Response(200, "completion", Completion))

ConcSpec == Init /\ [][ConcNext]_vars

(****************************** properties *********************************)
\* a request that passed validation and went through the registry step
Routed(t) ==
    /\ task[t].via = "route"
    /\ task[t].stage \in {"awaiting", "done"}
    /\ task[t].req.prompt_len > 0

CloudNames == {openai, anthropic, gemini}

ListsAllFour(names) ==
    /\ Len(names) = 4
    /\ {names[i] : i \in 1..Len(names)} = CloudNames \cup {ollama}

EndpointUsable == strip(settings.ollama_host) # <<>>

GotClient(t, name) == task[t].called /\ task[t].client = name

UnsupportedWithList(t) ==
    /\ ~task[t].called
    /\ task[t].stage = "done"
    /\ task[t].out.kind = "HTTPException"
    /\ task[t].out.status = 400
    /\ ListsAllFour(task[t].out.names)

\* C1 as stated: an identifier that lower-cases to openai, anthropic or gemini,
\* or to ollama while the endpoint is configured, resolves to that client;
\* every other string fails with 400 and a message listing all four names.
C1_Original ==
    \A t \in Tasks :
        Routed(t) =>
            LET p == lower(task[t].req.provider)
            IN  IF p \in CloudNames \/ (p = ollama /\ EndpointUsable)
                THEN GotClient(t, p)
                ELSE UnsupportedWithList(t)

\* C1 amended: as C1, except that "ollama" (any case) while its endpoint is
\* unconfigured is not among the strings answered with the list of names.
C1_Resolve ==
    \A t \in Tasks :
        Routed(t) =>
            LET p == lower(task[t].req.provider)
            IN  CASE p \in CloudNames \/ (p = ollama /\ EndpointUsable) ->
                        GotClient(t, p)
                  [] p = ollama /\ ~EndpointUsable -> ~task[t].called
                  [] OTHER -> UnsupportedWithList(t)

\* a name written with capitals that lower-cases to no known identifier was
\* refused with 400 and the four names
C1_Witness ==
    \E t \in Tasks :
        /\ Routed(t)
        /\ task[t].req.provider # lower(task[t].req.provider)
        /\ lower(task[t].req.provider) \notin CloudNames \cup {ollama}
        /\ UnsupportedWithList(t)
        /\ ~EndpointUsable

NotConfigured400(t) ==
    /\ task[t].stage = "done"
    /\ task[t].out.kind = "HTTPException"
    /\ task[t].out.status = 400
    /\ task[t].out.text =
         "Ollama provider requested but not configured. Set OLLAMA_HOST in .env"
    /\ ~task[t].called
    /\ task[t].net = 0

\* C2 as stated: a routed request naming ollama (any case) while no endpoint
\* value is supplied, or an empty one, ends with the 400 that cites the
\* missing configuration, and call_ollama is not invoked.
C2_Original ==
    \A t \in Tasks :
        ( /\ Routed(t)
          /\ lower(task[t].req.provider) = ollama
          /\ (~environ.some \/ environ.val = <<>>) )
        => NotConfigured400(t)

\* C2 amended: the same, when the endpoint value supplied is empty or blank.
\* (No value supplied means the default endpoint, which is configured.)
C2_Unconfigured ==
    \A t \in Tasks :
        ( /\ Routed(t)
          /\ lower(task[t].req.provider) = ollama
          /\ environ.some
          /\ \A i \in 1..Len(environ.val) : environ.val[i] \in WhiteSpace )
        => NotConfigured400(t)

\* "OllAmA" with OLLAMA_HOST set to the empty string was refused with 400
C2_Witness ==
    \E t \in Tasks :
        /\ Routed(t)
        /\ task[t].req.provider # ollama
        /\ lower(task[t].req.provider) = ollama
        /\ environ = SomeStr(<<>>)
        /\ NotConfigured400(t)

ApiErrorTemplate(client) ==
    CASE client = openai    -> "OpenAI API Error: {error_detail}"
      [] client = anthropic -> "Anthropic API Error: {error_detail}"
      [] client = gemini    -> "Gemini API Error: {error_detail}"
      [] OTHER -> ""

\* C3: whenever the backend of a cloud client answered with a non-2xx status,
\* whatever the body, the client raised an HTTPException with that status and
\* the detail "<Provider> API Error: <detail>", <detail> being error.message
\* when the body has one.
C3_CloudErrorNormalized ==
    \A t \in Tasks :
        ( /\ task[t].stage = "done"
          /\ task[t].client \in CloudNames
          /\ task[t].ev.ev = "response"
          /\ ~is_success(task[t].ev.status) )
        => /\ task[t].cres.kind = "HTTPException"
           /\ task[t].cres.status = task[t].ev.status
           /\ task[t].cres.text = ApiErrorTemplate(task[t].client)
           /\ task[t].ev.shape = "error_message"
                 => task[t].cres.arg = task[t].ev.text

\* C4: no invocation of a backend client is still pending once more than the
\* timeout budget has passed without progress.
C4_TimeoutBound ==
    \A t \in Tasks :
        task[t].stage = "awaiting" => task[t].elapsed <= TIMEOUT_CONFIG.read

\* C5: a routed request ends either as a 200 AIResponse (only when its client
\* returned) or as an HTTPException with a status and a message; an
\* HTTPException of the registry or of the client reaches the caller
\* unchanged; any other exception reaches it as the fixed 500 message with
\* nothing of the exception's text.
C5_ErrorBoundary ==
    \A t \in Tasks :
        (task[t].via = "route" /\ task[t].stage = "done") =>
            LET o == task[t].out
                c == task[t].cres
            IN  /\ o.kind \in {"AIResponse", "HTTPException"}
                /\ o.kind = "AIResponse" <=> c.kind = "return"
                /\ o.kind = "AIResponse" => o.status = 200
                /\ o.kind = "HTTPException" => ~is_success(o.status) /\ o.text # ""
                /\ c.kind = "HTTPException" => o = c
                /\ (Routed(t) /\ ~task[t].called) =>
                       o = get_provider_function(task[t].req.provider, settings).err
                /\ c.kind = "exception" =>
                       /\ o.status = 500
                       /\ o.text = "Internal server error processing AI request"
                       /\ o.arg = <<>>

\* an exception that escaped a client reached the caller as the plain 500
C5_Witness ==
    \E t \in Tasks :
        /\ task[t].via = "route" /\ task[t].stage = "done"
        /\ task[t].cres.kind = "exception"
        /\ task[t].cres.arg # <<>>
        /\ task[t].out.status = 500
        /\ task[t].net > 0

Succeeded(t) ==
    /\ task[t].via = "route" /\ task[t].stage = "done"
    /\ task[t].out.kind = "AIResponse"

DefaultModelOf(client) ==
    CASE client = openai    -> default_openai_model
      [] client = anthropic -> default_anthropic_model
      [] client = gemini    -> default_gemini_model
      [] client = ollama    -> default_ollama_model

\* C6 as stated: on success the response's model is the caller's model value
\* when the body carried one, and "default" when it carried none.
C6_Original ==
    \A t \in Tasks :
        Succeeded(t) =>
            task[t].out.model =
                IF task[t].raw.model.tag = "str"
                THEN task[t].raw.model.s ELSE Default

\* C6 amended: on success the response's model is the caller's model value
\* when the body carried a non-empty one, and "default" when it carried none,
\* null or the empty string; in the latter case the client used the provider's
\* default model, which the response does not name.
C6_Model ==
    \A t \in Tasks :
        Succeeded(t) =>
            IF task[t].raw.model.tag = "str" /\ task[t].raw.model.s # <<>>
            THEN /\ task[t].out.model = task[t].raw.model.s
                 /\ task[t].call.model = task[t].raw.model.s
            ELSE /\ task[t].out.model = Default
                 /\ task[t].call.model = DefaultModelOf(task[t].client)
                 /\ task[t].out.model # task[t].call.model

\* a success for a body with model "" answered "default" while the client
\* used its provider's default model
C6_Witness ==
    \E t \in Tasks :
        /\ Succeeded(t)
        /\ task[t].raw.model = Str(<<>>)
        /\ task[t].out.model = Default
        /\ task[t].call.model = default_openai_model

\* C7: a client entered for a routed request is given a max_tokens that is an
\* integer in [1,4096]; a body whose max_tokens is anything else, null
\* included, is rejected before the registry and the clients.
C7_MaxTokensInRange ==
    \A t \in Tasks :
        (task[t].via = "route" /\ task[t].called) =>
            /\ task[t].req.max_tokens.some
            /\ 1 <= task[t].req.max_tokens.num
            /\ task[t].req.max_tokens.num <= 4096

\* C8: call_ollama entered while the configured endpoint is the empty string
\* ends with 503 without a network call; and it has made a network call only
\* with a non-empty endpoint.
C8_NoEndpointNoCall ==
    \A t \in Tasks :
        (task[t].called /\ task[t].client = ollama) =>
            /\ settings.ollama_host = <<>> =>
                  /\ task[t].stage = "done"
                  /\ task[t].cres.kind = "HTTPException"
                  /\ task[t].cres.status = 503
                  /\ task[t].net = 0
            /\ task[t].net > 0 => settings.ollama_host # <<>>

\* call_ollama was called with OLLAMA_HOST empty and raised 503
C8_Witness ==
    \E t \in Tasks :
        /\ task[t].called /\ task[t].client = ollama
        /\ settings.ollama_host = <<>>
        /\ task[t].cres.status = 503
        /\ task[t].net = 0

\* C9: when the local call failed with an exception, whatever its class, the
\* HTTPException raised depends on the text alone: "model not found" gives
\* 400 naming the requested model; otherwise "connection" or "refused" gives
\* 503; anything else gives 502.
C9_ByTextAlone ==
    \A t \in Tasks :
        ( /\ task[t].stage = "done"
          /\ task[t].client = ollama
          /\ task[t].ev.ev = "exception" /\ task[t].ev.exc # "" )
        => LET txt == lower(task[t].ev.text)
               c == task[t].cres
           IN  /\ c.kind = "HTTPException"
               /\ IF contains(txt, ModelNotFound)
                  THEN c.status = 400 /\ c.arg = task[t].call.model
                  ELSE IF contains(txt, Connection) \/ contains(txt, Refused)
                       THEN c.status = 503
                       ELSE c.status = 502

\* C10: while a request waits for its backend's answer, every other request
\* can take its next step: be validated, be resolved and dispatched, have its
\* connection made, and complete on its backend's answer.
C10_NoBlocking ==
    \A t1 \in Tasks : \A t2 \in Tasks \ {t1} :
        task[t1].stage = "awaiting" =>
            /\ task[t2].stage = "received" => ENABLED Validate(t2)
            /\ task[t2].stage = "accepted" => ENABLED chat_endpoint_begin(t2)
            /\ (task[t2].stage = "awaiting" /\ task[t2].phase = "reading") =>
                  ENABLED Answer(t2, Response(200, "completion", Completion))

=============================================================================
